---- MODULE Spec2Model ----
(***************************************************************************)
(* State-machine model of eeg-trigger-js: the dispatch engine of           *)
(* src/triggers.js (the module returned by the last factory, lines         *)
(* 129-359) and the TriggerManager of src/triggerManager.js.               *)
(*                                                                         *)
(* JavaScript runs every synchronous stretch of code atomically and        *)
(* suspends only at an await or a promise callback.  One action of the     *)
(* model is one such stretch: the call of a public function up to the      *)
(* point where it returns its promise, or one continuation (the code       *)
(* after an await, a .then or a .catch callback).  Promises are records    *)
(* kept in sequences; a string made of dot-separated segments is the       *)
(* sequence of its segments.                                               *)
(*                                                                         *)
(* Spec is the manager with its engine.  SpecEngine is the engine alone,   *)
(* started in any configuration the setters can leave, with all of its     *)
(* API.  SpecTwice is initialize called again and again against a mapping  *)
(* source that does not change.  SpecResolve is one call of                *)
(* getTriggerValue on a document and a path.  SpecInitialize is            *)
(* initialize with setPerformanceMode called between its steps, under      *)
(* weak fairness of the continuations.                                     *)
(*                                                                         *)
(* fetch is not part of the repository.  In Spec it reads the request      *)
(* body inside the call; in SpecEngine it may also read the options        *)
(* object it was handed later, while the request is in flight              *)
(* (TransportRead).                                                        *)
(***************************************************************************)
EXTENDS Integers, Sequences, FiniteSets, TLC

\* ------------------------------------------------------------------ bounds

\* Number of calls of the public API made by the callers in one behaviour.
MaxOps == 2

\* ------------------------------------------------ JSON values and documents

\* A JSON value: a number, a string, an object (kids: key -> value) or null.
\* A key is the sequence of the dot-separated segments of the key string, so
\* the key "system.test" is <<"system", "test">> and "system" is <<"system">>.
Num(n) == [t |-> "num", v |-> n, s |-> "", kids |-> <<>>]
Str(s) == [t |-> "str", v |-> 0, s |-> s, kids |-> <<>>]
Obj(kids) == [t |-> "obj", v |-> 0, s |-> "", kids |-> kids]
NullValue == [t |-> "null", v |-> 0, s |-> "", kids |-> <<>>]
Undefined == [t |-> "undefined", v |-> 0, s |-> "", kids |-> <<>>]

\* The built-in mapping loadMappings falls back to: three flat keys.
FallbackMappings ==
    Obj((<<"system", "test">> :> Num(99))
        @@ (<<"system", "initialized">> :> Num(1))
        @@ (<<"system", "error">> :> Num(2)))

\* The nested document of the README.
DocNested ==
    Obj((<<"system">> :> Obj((<<"test">> :> Num(99))
                             @@ (<<"initialized">> :> Num(1))))
        @@ (<<"scenes">> :> Obj(<<"intro">> :> Obj(<<"start">> :> Num(10)))))

\* A document without the self-test event.
DocNoTest ==
    Obj(<<"scenes">> :> Obj(<<"intro">> :> Obj(<<"start">> :> Num(10))))

\* A document whose self-test leaf is not a number.
DocBadLeaf ==
    Obj((<<"system">> :> Obj(<<"test">> :> Str("x")))
        @@ (<<"scenes", "intro", "start">> :> Num(11)))

\* What the mapping source can answer with.
Documents == {DocNested, DocNoTest, DocBadLeaf}

\* Event paths the callers use.
SelfTestPath == <<"system", "test">>
Paths == {SelfTestPath, <<"scenes", "intro", "start">>, <<"missing">>}

\* ------------------------------------------------------- mapping resolver

\* current[part] of JavaScript: undefined unless current is an object that
\* has the key.
Lookup(current, key) ==
    IF current.t = "obj" /\ key \in DOMAIN current.kids
    THEN current.kids[key]
    ELSE Undefined

\* The result of getTriggerValue: a number, or null with the error logged
\* (console.error: "Trigger mappings not loaded", "Trigger path not found",
\* "Invalid trigger value for", "Error looking up trigger value").
Found(n) == [isNull |-> FALSE, value |-> n, logged |-> "none"]
Null(why) == [isNull |-> TRUE, value |-> 0, logged |-> why]

\* A walk that returns whatever it ends on.
RECURSIVE WalkUnchecked(_, _)
WalkUnchecked(current, parts) ==
    IF parts = <<>>
    THEN Found(current.v)
    ELSE IF current.t = "null"
         THEN Null("LookupError")
         ELSE IF Lookup(current, <<Head(parts)>>) = Undefined
              THEN Null("NotFound")
              ELSE WalkUnchecked(Lookup(current, <<Head(parts)>>), Tail(parts))

\* The for loop of getTriggerValue over the segments of the path, and the
\* check of what it ends on.  Reading a key of null throws: the catch block
\* logs the error and returns null too.
RECURSIVE Walk(_, _)
Walk(current, parts) ==
    IF parts = <<>>
    THEN IF current.t # "num" THEN Null("InvalidLeaf") ELSE Found(current.v)
    ELSE IF current.t = "null"
         THEN Null("LookupError")
         ELSE IF Lookup(current, <<Head(parts)>>) = Undefined
              THEN Null("NotFound")
              ELSE Walk(Lookup(current, <<Head(parts)>>), Tail(parts))

\* A direct access that answers for whatever the literal key holds.
DirectHitAnyValue(mappings, eventPath) ==
    Lookup(mappings, eventPath) # Undefined

\* A getTriggerValue without the direct access.
DirectHitNever(mappings, eventPath) == FALSE

\* The direct access of getTriggerValue answers only for a number.
DirectHit(mappings, eventPath) ==
    /\ Lookup(mappings, eventPath) # Undefined
    /\ Lookup(mappings, eventPath).t = "num"

getTriggerValue(mappings, eventPath) ==
    IF mappings.t = "null"
    THEN Null("NotLoaded")
    ELSE IF DirectHit(mappings, eventPath)
         THEN Found(Lookup(mappings, eventPath).v)
         ELSE Walk(mappings, eventPath)

\* No call of getTriggerValue is under way.
NoLookup == [pc |-> "none", mappings |-> NullValue, eventPath |-> <<>>,
             result |-> Null("none")]

\* ------------------------------------------------------------------ state

VARIABLES
    serverConfig,     \* triggers.js: host, port, verboseMode, lowLatencyMode,
                      \*   skipResponseProcessing
    fetchOptions,     \* triggers.js: the request options the low-latency path reuses
    requests,         \* the transport: every fetch issued, in the order of issue
    engCalls,         \* the promises returned by the engine's sendTrigger
    batchCalls,       \* the promises returned by sendTriggerBatch
    twin,             \* a second engine that is given the same calls and the
                      \*   same answers of the transport as the first
    isInitialized,    \* TriggerManager.isInitialized
    triggerHistory,   \* TriggerManager.triggerHistory
    triggerMappings,  \* TriggerManager.triggerMappings
    calls,            \* the promises returned by the manager's sendTrigger and
                      \*   sendTriggerByEvent
    inits,            \* the calls of initialize, each with its position
    loads,            \* the calls of loadMappings, each with its position
    lastSettled,      \* the index in inits of the initialize that settled last
    lastRead,         \* what the last getTriggerHistory returned
    lookup,           \* one call of getTriggerValue: its arguments, then its result
    source,           \* what the mapping source answers a load with
    ops               \* number of API calls made so far

vars == <<serverConfig, fetchOptions, requests, engCalls, batchCalls, twin,
          isInitialized, triggerHistory, triggerMappings, calls, inits, loads,
          lastSettled, lastRead, lookup, source, ops>>

engineVars == <<serverConfig, fetchOptions, requests, engCalls, batchCalls, twin>>
managerVars == <<isInitialized, triggerHistory, triggerMappings, calls, inits,
                 loads, lastSettled, lastRead, lookup, source>>

\* ------------------------------------------------------- dispatch engine

DefaultHost == "127.0.0.1"
DefaultPort == 5000

\* Arguments the callers pass.  "" and 0 are falsy: the argument is left out.
ServerArgs == {<<"h", 0>>, <<"", 1>>}
InitializeArgs == {<<"h", 1>>}
SendArgs == {<<5, "">>, <<7, "L">>}
EventArgs == {<<<<"system", "test">>, "">>,
              <<<<"scenes", "intro", "start">>, "L">>,
              <<<<"missing">>, "">>}
DirectValues == {5}
BatchArgs == {<<>>, <<5, 6>>}
PerformanceArgs == {<<TRUE, "true">>, <<TRUE, "false">>, <<TRUE, "undefined">>,
                    <<FALSE, "undefined">>}

requestBodyTemplate == "{\"trigger_value\":"

getServerUrl(cfg) ==
    "http://" \o cfg.host \o ":" \o ToString(cfg.port) \o "/set_data"

\* JSON.stringify({trigger_value: v}) for a number v.
JsonStringify(v) == "{" \o "\"trigger_value\"" \o ":" \o ToString(v) \o "}"

\* A template whose closing brace is forgotten.
RequestBodyUnclosed(cfg, v) ==
    IF cfg.lowLatencyMode
    THEN requestBodyTemplate \o ToString(v)
    ELSE JsonStringify(v)

\* The body of the request sendTrigger issues, on each of its two paths.
RequestBody(cfg, v) ==
    IF cfg.lowLatencyMode
    THEN requestBodyTemplate \o ToString(v) \o "}"
    ELSE JsonStringify(v)

\* A low-latency path that always waits for the response.
SkipsResponseNever(cfg) == FALSE

\* A sendTrigger that skips the response in standard mode too.
SkipsResponseWhenAsked(cfg) == cfg.skipResponseProcessing

\* Whether sendTrigger returns its outcome without waiting for the fetch.
SkipsResponse(cfg) == cfg.lowLatencyMode /\ cfg.skipResponseProcessing

NoResult == [status |-> "none", triggerValue |-> 0]
PendingResult(v) == [status |-> "pending", triggerValue |-> v]
JsonResult == [status |-> "json", triggerValue |-> 0]
ErrorResult(cause) == [status |-> cause, triggerValue |-> 0]

\* The lines a call writes to the console: what it says and whether it
\* carries a timestamp.
LogLine(what, stamped) == [what |-> what, stamped |-> stamped]

\* The log before the fetch: only in verbose mode.
SendingLog(cfg) ==
    IF cfg.verboseMode THEN <<LogLine("sending", TRUE)>> ELSE <<>>

\* The log of the then callback, written after response.ok was checked: it
\* reads verboseMode when the response arrives.
ResponseLog(status, verboseNow) ==
    IF status \in {"ok", "okNotJson"} /\ verboseNow
    THEN <<LogLine("response", TRUE)>> ELSE <<>>

\* The log of the catch callback: the standard path and the batch stamp it
\* in verbose mode, the low-latency path never does.
ErrorLog(status, lowLatency, verboseNow) ==
    IF status = "ok" THEN <<>>
    ELSE <<LogLine("error", ~lowLatency /\ verboseNow)>>

\* The promise sendTrigger returns, already resolved in skip-response mode.
\* cfg is the configuration at the call and req the place of its fetch.
SentCall(cfg, req, v) ==
    [value |-> v, req |-> req, cfg |-> cfg,
     lowLatency |-> cfg.lowLatencyMode,
     skipResponse |-> cfg.skipResponseProcessing,
     state |-> IF SkipsResponse(cfg) THEN "resolved" ELSE "pending",
     result |-> IF SkipsResponse(cfg) THEN PendingResult(v) ELSE NoResult,
     log |-> SendingLog(cfg)]

\* The fetch of sendTrigger. body is the body of the options object at the
\* call; shared tells that the object is the module's fetchOptions, which
\* later calls write again; carried is the body the transport has read from
\* the object.
SentRequest(cfg, v) ==
    [url |-> getServerUrl(cfg), method |-> "POST", body |-> RequestBody(cfg, v),
     shared |-> cfg.lowLatencyMode, carried |-> RequestBody(cfg, v),
     status |-> "inflight"]

\* A fetch that overtakes the requests issued before it.
IssueFirst(reqs, request) == <<request>> \o reqs

\* Where a fetch goes among the requests the transport has seen: fetch is
\* called inside the call of sendTrigger, so after all earlier ones.
Issue(reqs, request) == Append(reqs, request)

\* A low-latency path that leaves the shared object as it was.
SentFetchOptionsUnwritten(cfg, options, v) == options

\* fetchOptions after sendTrigger: the low-latency path writes the body
\* into the shared object.
SentFetchOptions(cfg, options, v) ==
    IF cfg.lowLatencyMode
    THEN [options EXCEPT !.body = RequestBody(cfg, v)]
    ELSE options

\* Callbacks that do not look at response.ok.
EngineOutcomeUnchecked(status) ==
    IF status \in {"ok", "httpError"}
    THEN [state |-> "resolved", result |-> JsonResult]
    ELSE [state |-> "rejected", result |-> ErrorResult(status)]

\* The callbacks on the fetch promise (response.ok, response.json(), the
\* catch that rethrows): the engine's promise follows the transport, and
\* a body that is not JSON makes response.json() reject.
EngineOutcome(status) ==
    IF status = "ok"
    THEN [state |-> "resolved", result |-> JsonResult]
    ELSE [state |-> "rejected", result |-> ErrorResult(status)]

\* A promise of sendTrigger after the transport settled request r with
\* status: nothing happens to a promise that was returned resolved.
SettledCall(call, r, status, verboseNow) ==
    IF call.req = r /\ call.state = "pending"
    THEN [call EXCEPT !.state = EngineOutcome(status).state,
                      !.result = EngineOutcome(status).result,
                      !.log = @ \o ResponseLog(status, verboseNow)
                                \o ErrorLog(status, call.lowLatency, verboseNow)]
    ELSE call

\* A batch that returns at once when responses are skipped.
BatchAwaitsUnlessSkipped(cfg) == ~SkipsResponse(cfg)

\* sendTriggerBatch has one path: it waits for the response.
BatchAwaits(cfg) == TRUE

RECURSIVE JoinNumbers(_)
JoinNumbers(values) ==
    IF values = <<>> THEN ""
    ELSE IF Len(values) = 1 THEN ToString(Head(values))
    ELSE ToString(Head(values)) \o "," \o JoinNumbers(Tail(values))

\* JSON.stringify({trigger_values: triggerValues}).
JsonStringifyBatch(values) ==
    "{" \o "\"trigger_values\"" \o ":[" \o JoinNumbers(values) \o "]}"

\* The fetch of sendTriggerBatch.
BatchRequest(cfg, values) ==
    [url |-> getServerUrl(cfg) \o "/batch", method |-> "POST",
     body |-> JsonStringifyBatch(values), shared |-> FALSE,
     carried |-> JsonStringifyBatch(values), status |-> "inflight"]

\* The promise sendTriggerBatch returns.
BatchCall(cfg, req, values) ==
    [values |-> values, req |-> req, cfg |-> cfg,
     state |-> IF BatchAwaits(cfg) THEN "pending" ELSE "resolved",
     result |-> NoResult, log |-> SendingLog(cfg)]

\* A promise of sendTriggerBatch after the transport settled request r.
SettledBatch(call, r, status, verboseNow) ==
    IF call.req = r /\ call.state = "pending"
    THEN [call EXCEPT !.state = EngineOutcome(status).state,
                      !.result = EngineOutcome(status).result,
                      !.log = @ \o ResponseLog(status, verboseNow)
                                \o ErrorLog(status, FALSE, verboseNow)]
    ELSE call

\* The five parts of an engine as one record: the second engine.
EngineOf(cfg) ==
    [serverConfig |-> cfg, fetchOptions |-> [method |-> "POST", body |-> "{}"],
     requests |-> <<>>, engCalls |-> <<>>, batchCalls |-> <<>>]

\* The same configuration with the other skipResponseProcessing.
OtherSkipResponse(cfg) ==
    [cfg EXCEPT !.skipResponseProcessing = ~@]

\* sendTrigger, sendTriggerBatch and the callbacks on the fetch promise, on
\* an engine e given as a record.
SentOn(e, v) ==
    [e EXCEPT !.fetchOptions = SentFetchOptions(e.serverConfig, @, v),
              !.requests = Issue(@, SentRequest(e.serverConfig, v)),
              !.engCalls = Append(@, SentCall(e.serverConfig,
                                              Len(e.requests) + 1, v))]
BatchSentOn(e, values) ==
    [e EXCEPT !.requests = Issue(@, BatchRequest(e.serverConfig, values)),
              !.batchCalls = Append(@, BatchCall(e.serverConfig,
                                                 Len(e.requests) + 1, values))]
ReadOn(e, r) ==
    IF r <= Len(e.requests) /\ e.requests[r].shared
    THEN [e EXCEPT !.requests[r].carried = e.fetchOptions.body]
    ELSE e
SettledOn(e, r, status) ==
    [e EXCEPT !.requests = [@ EXCEPT ![r].status = status],
              !.engCalls = [j \in 1..Len(@) |->
                  SettledCall(@[j], r, status, e.serverConfig.verboseMode)],
              !.batchCalls = [j \in 1..Len(@) |->
                  SettledBatch(@[j], r, status, e.serverConfig.verboseMode)]]

\* sendTrigger(triggerValue) of triggers.js up to its return: one fetch is
\* issued and a promise is returned.
EngineSendTrigger(v) ==
    /\ fetchOptions' = SentFetchOptions(serverConfig, fetchOptions, v)
    /\ requests' = Issue(requests, SentRequest(serverConfig, v))
    /\ engCalls' = Append(engCalls, SentCall(serverConfig, Len(requests) + 1, v))
    /\ twin' = SentOn(twin, v)
    /\ UNCHANGED <<serverConfig, batchCalls>>

\* sendTriggerBatch(triggerValues) up to its return.
EngineSendTriggerBatch(values) ==
    /\ requests' = Issue(requests, BatchRequest(serverConfig, values))
    /\ batchCalls' = Append(batchCalls,
           BatchCall(serverConfig, Len(requests) + 1, values))
    /\ twin' = BatchSentOn(twin, values)
    /\ UNCHANGED <<serverConfig, fetchOptions, engCalls>>

\* ------------------------------------------------------- trigger manager

\* The constructor's isInitialized.
constructorIsInitialized == FALSE

\* eventPath as the string it is: its segments joined by dots.
RECURSIVE JoinPath(_)
JoinPath(path) ==
    IF path = <<>> THEN ""
    ELSE IF Len(path) = 1 THEN Head(path)
    ELSE Head(path) \o "." \o JoinPath(Tail(path))

\* fullLabel of sendTriggerByEvent.
FullLabel(eventPath, label) ==
    JoinPath(eventPath) \o (IF label # "" THEN " - " \o label ELSE "")

SelfTestLabel == "Test trigger on initialization"

\* Date.now(): the clock ticks once with every call of the API.
DateNow == ops

\* A sendTrigger that never checks the flag.
RejectsNever(ready) == FALSE

\* The guard of the manager's sendTrigger.
RejectsNotInitialized(ready) == ~ready

\* A sendTriggerByEvent that sends whatever the lookup returned.
NoTriggerValueIgnored(tv) == FALSE

\* The guard of sendTriggerByEvent.
NoTriggerValue(tv) == tv.isNull

\* A sendTrigger that puts its entry first in the ledger.
PushHistoryFirst(history, value, label, timestamp) ==
    <<[value |-> value, label |-> label, timestamp |-> timestamp]>> \o history

\* A sendTrigger that logs only when it waits for the response.
PushHistoryWhenAwaited(history, value, label, timestamp) ==
    IF serverConfig.lowLatencyMode /\ serverConfig.skipResponseProcessing
    THEN history
    ELSE Append(history, [value |-> value, label |-> label,
                          timestamp |-> timestamp])

\* A sendTrigger that logs nothing.
PushHistoryMissing(history, value, label, timestamp) == history

\* triggerHistory.push(triggerEvent).
PushHistory(history, value, label, timestamp) ==
    Append(history, [value |-> value, label |-> label, timestamp |-> timestamp])

\* The initialize calls that have not settled yet.
Running == {i \in 1..Len(inits) : inits[i].pc # "done"}

\* A promise of the manager as returned.  eng is the engine's promise it
\* waits for and hist the place of its ledger entry (0: none); after and
\* running note the moment of the call: the initialize that had settled
\* last, and how many were still running.
RejectedCall(op, path, value, label, error) ==
    [op |-> op, path |-> path, value |-> value, label |-> label, eng |-> 0,
     hist |-> 0, state |-> "rejected", error |-> error, settles |-> 1,
     after |-> lastSettled, running |-> Cardinality(Running)]
DispatchedCall(op, path, value, label, eng, hist) ==
    [op |-> op, path |-> path, value |-> value, label |-> label, eng |-> eng,
     hist |-> hist, state |-> "pending", error |-> "none", settles |-> 0,
     after |-> lastSettled, running |-> Cardinality(Running)]

\* sendTrigger(value, label) of the manager up to its return, with the
\* manager's flag as it is at the call (ready).
ManagerSendTrigger(op, path, value, label, ready) ==
    IF RejectsNotInitialized(ready)
    THEN /\ calls' = Append(calls,
                RejectedCall(op, path, value, label, "NotInitialized"))
         /\ UNCHANGED <<triggerHistory, engineVars>>
    ELSE /\ triggerHistory' = PushHistory(triggerHistory, value, label, DateNow)
         /\ EngineSendTrigger(value)
         /\ calls' = Append(calls,
                DispatchedCall(op, path, value, label, Len(engCalls) + 1,
                               Len(triggerHistory')))

\* sendTriggerByEvent(eventPath, label) up to its return.
ManagerSendTriggerByEvent(eventPath, label, ready) ==
    IF NoTriggerValue(getTriggerValue(triggerMappings, eventPath))
    THEN /\ calls' = Append(calls,
                RejectedCall("sendTriggerByEvent", eventPath, 0,
                             FullLabel(eventPath, label), "NoTriggerValue"))
         /\ UNCHANGED <<triggerHistory, engineVars>>
    ELSE ManagerSendTrigger("sendTriggerByEvent", eventPath,
             getTriggerValue(triggerMappings, eventPath).value,
             FullLabel(eventPath, label), ready)

\* A sendTrigger whose callbacks resolve whatever the dispatch did.
ManagerOutcomeSwallowed(engState) == "resolved"

\* The then / catch callbacks of the manager's sendTrigger: resolve() or
\* reject(error), as the engine's promise settled.
ManagerOutcome(engState) ==
    IF engState = "resolved" THEN "resolved" ELSE "rejected"

\* ---------------------------------------------------------------- actions

\* The mapping source: it answers every load the same way (loaded tells
\* whether the fetch succeeds, doc what it delivers), or, its content
\* changing at any time, any load in any way.
AnySource == [fixed |-> FALSE, loaded |-> FALSE, doc |-> NullValue]
FixedSource(loaded, doc) == [fixed |-> TRUE, loaded |-> loaded, doc |-> doc]
Answers(src, loaded, doc) ==
    src.fixed => (src.loaded = loaded /\ src.doc = doc)

\* The engine and a manager as constructed, with cfg as the engine's
\* configuration, look as the call of getTriggerValue under way and src as
\* the mapping source.
Constructed(cfg, look, src) ==
    /\ serverConfig = cfg
    /\ lookup = look
    /\ source = src
    /\ fetchOptions = [method |-> "POST", body |-> "{}"]
    /\ requests = <<>>
    /\ engCalls = <<>>
    /\ isInitialized = constructorIsInitialized
    /\ triggerHistory = <<>>
    /\ triggerMappings = NullValue
    /\ calls = <<>>
    /\ inits = <<>>
    /\ loads = <<>>
    /\ lastSettled = 0
    /\ lastRead = <<>>
    /\ batchCalls = <<>>
    /\ twin = EngineOf(OtherSkipResponse(cfg))
    /\ ops = 0

\* serverConfig as the module is loaded.
DefaultConfig ==
    [host |-> DefaultHost, port |-> DefaultPort, verboseMode |-> FALSE,
     lowLatencyMode |-> FALSE, skipResponseProcessing |-> FALSE]

Init == Constructed(DefaultConfig, NoLookup, AnySource)

\* A caller makes one more call of the API.
Op == ops < MaxOps /\ ops' = ops + 1

\* configureServer(host, port): a falsy argument leaves the option alone.
ConfiguredServer(cfg, host, port) ==
    [cfg EXCEPT !.host = IF host # "" THEN host ELSE @,
                !.port = IF port # 0 THEN port ELSE @]

ConfigureServer(host, port) ==
    /\ Op
    /\ serverConfig' = ConfiguredServer(serverConfig, host, port)
    /\ twin' = [twin EXCEPT !.serverConfig = ConfiguredServer(@, host, port)]
    /\ UNCHANGED <<fetchOptions, requests, engCalls, batchCalls, managerVars>>

\* A toggleVerbose that flips the flag.
VerboseFlipped(cfg, enable) == [cfg EXCEPT !.verboseMode = ~@]

\* toggleVerbose(enable), called with a boolean.
VerboseToggled(cfg, enable) == [cfg EXCEPT !.verboseMode = enable]

ToggleVerbose(enable) ==
    /\ Op
    /\ serverConfig' = VerboseToggled(serverConfig, enable)
    /\ twin' = [twin EXCEPT !.serverConfig = VerboseToggled(@, enable)]
    /\ UNCHANGED <<fetchOptions, requests, engCalls, batchCalls, managerVars>>

\* A setPerformanceMode that converts a missing skipResponse as it does a
\* given one: Boolean(undefined) is false.
PerformanceModeSetBoth(cfg, enable, skipResponse) ==
    [cfg EXCEPT !.lowLatencyMode = enable,
                !.skipResponseProcessing = (skipResponse = "true")]

\* setPerformanceMode(enable, skipResponse); skipResponse is "undefined",
\* TRUE or FALSE.
PerformanceModeSet(cfg, enable, skipResponse) ==
    [cfg EXCEPT !.lowLatencyMode = enable,
                !.skipResponseProcessing =
                    IF skipResponse # "undefined" THEN skipResponse = "true" ELSE @]

SetPerformanceMode(enable, skipResponse) ==
    /\ Op
    /\ serverConfig' = PerformanceModeSet(serverConfig, enable, skipResponse)
    /\ twin' = [twin EXCEPT
           !.serverConfig = PerformanceModeSet(@, enable, skipResponse)]
    /\ UNCHANGED <<fetchOptions, requests, engCalls, batchCalls, managerVars>>

\* A caller calls the engine's sendTrigger directly.
SendTriggerDirect(v) ==
    /\ Op
    /\ EngineSendTrigger(v)
    /\ UNCHANGED managerVars

\* A caller calls sendTriggerBatch.
SendTriggerBatch(values) ==
    /\ Op
    /\ EngineSendTriggerBatch(values)
    /\ UNCHANGED managerVars

\* How the transport can settle a request: a success status with a body
\* that is JSON or one that response.json() cannot parse, a non-success
\* status, or a fault of the network.
TransportOutcomes == {"ok", "okNotJson", "httpError", "networkError"}

\* The body of the response to request r is decoded: a promise of one of
\* the engines is waiting with its then callback.
Decoded(r) ==
    \/ \E j \in 1..Len(engCalls) :
           engCalls[j].req = r /\ engCalls[j].state = "pending"
    \/ \E j \in 1..Len(batchCalls) :
           batchCalls[j].req = r /\ batchCalls[j].state = "pending"
    \/ \E j \in 1..Len(twin.engCalls) :
           twin.engCalls[j].req = r /\ twin.engCalls[j].state = "pending"
    \/ \E j \in 1..Len(twin.batchCalls) :
           twin.batchCalls[j].req = r /\ twin.batchCalls[j].state = "pending"

\* The transport settles one request that is in flight, and the callbacks
\* on its fetch promise run: the engine's promise, unless it was returned
\* resolved, settles with the transport's outcome.
TransportSettle(r, status) ==
    /\ requests[r].status = "inflight"
    /\ status = "okNotJson" => Decoded(r)
    /\ requests' = [requests EXCEPT ![r].status = status]
    /\ engCalls' = [j \in 1..Len(engCalls) |->
           SettledCall(engCalls[j], r, status, serverConfig.verboseMode)]
    /\ batchCalls' = [j \in 1..Len(batchCalls) |->
           SettledBatch(batchCalls[j], r, status, serverConfig.verboseMode)]
    /\ twin' = SettledOn(twin, r, status)
    /\ UNCHANGED <<serverConfig, fetchOptions, managerVars, ops>>

\* The transport reads the body of a request in flight from the options
\* object it was handed, after the call of fetch has returned. fetch is not
\* part of the module: one that builds its request inside the call has read
\* the body there (carried = body from the start); one that keeps the
\* object and reads it when it transmits finds what the object holds then.
TransportRead(r) ==
    /\ requests[r].status = "inflight"
    /\ requests[r].shared
    /\ requests[r].carried = requests[r].body
    /\ requests' = [requests EXCEPT ![r].carried = fetchOptions.body]
    /\ twin' = ReadOn(twin, r)
    /\ UNCHANGED <<serverConfig, fetchOptions, engCalls, batchCalls,
                   managerVars, ops>>

\* A call of loadMappings whose fetch is in flight; init is the initialize
\* that made it (0: a caller did).
StartedLoad(init) == [init |-> init, state |-> "inflight"]

\* A loadMappings whose catch block leaves the mappings unset.
MappingsAfterLoadNoFallback(loaded, doc) ==
    IF loaded THEN doc ELSE NullValue

\* A loadMappings that merges the document into the mappings it finds.
MappingsAfterLoadMerged(loaded, doc) ==
    IF loaded THEN Obj(doc.kids @@ triggerMappings.kids) ELSE FallbackMappings

\* this.triggerMappings after loadMappings: the document, or the fallback
\* of the catch block.
MappingsAfterLoad(loaded, doc) ==
    IF loaded THEN doc ELSE FallbackMappings

\* loadMappings(path) called by a caller: the fetch of the document starts.
LoadMappings ==
    /\ Op
    /\ loads' = Append(loads, StartedLoad(0))
    /\ UNCHANGED <<engineVars, isInitialized, triggerHistory, triggerMappings,
                   calls, inits, lastSettled, lastRead, lookup, source>>

\* The rest of loadMappings: the document arrived, or the load failed and
\* the fallback takes its place.
LoadSettle(l, loaded, doc) ==
    /\ loads[l].state = "inflight"
    /\ Answers(source, loaded, doc)
    /\ loads' = [loads EXCEPT ![l].state = "done"]
    /\ triggerMappings' = MappingsAfterLoad(loaded, doc)
    /\ UNCHANGED <<engineVars, isInitialized, triggerHistory, calls, inits,
                   lastSettled, lastRead, lookup, source, ops>>

\* An initialize that sets the server and leaves the three flags alone.
InitializeConfiguredServerOnly(cfg, host, port) ==
    ConfiguredServer(cfg, host, port)

\* The three calls initialize makes on the engine: configureServer(host,
\* port), toggleVerbose(true) and setPerformanceMode(true, true).
InitializeConfigured(cfg, host, port) ==
    PerformanceModeSet(VerboseToggled(ConfiguredServer(cfg, host, port), TRUE),
                       TRUE, "true")

\* initialize(host, port, mappingsPath) up to its first await, called with
\* a host and a port (the defaults of omitted arguments are not drawn).
\* overlapped notes whether another initialize was running at any moment
\* of this one.
Initialize(host, port) ==
    /\ Op
    /\ serverConfig' = InitializeConfigured(serverConfig, host, port)
    /\ twin' = [twin EXCEPT
           !.serverConfig = InitializeConfigured(@, host, port)]
    /\ loads' = Append(loads, StartedLoad(Len(inits) + 1))
    /\ inits' = Append([i \in 1..Len(inits) |->
                            [inits[i] EXCEPT !.overlapped = @ \/ i \in Running]],
                        [host |-> host, port |-> port, pc |-> "loading",
                         load |-> Len(loads) + 1, call |-> 0,
                         result |-> "none", overlapped |-> Running # {}])
    /\ UNCHANGED <<fetchOptions, requests, engCalls, batchCalls, isInitialized,
                   triggerHistory, triggerMappings, calls, lastSettled,
                   lastRead, lookup, source>>

\* initialize after loadMappings: the flag is set and the self-test is sent.
InitializeLoaded(i) ==
    /\ inits[i].pc = "loading"
    /\ loads[inits[i].load].state = "done"
    /\ isInitialized' = TRUE
    /\ ManagerSendTriggerByEvent(SelfTestPath, SelfTestLabel, TRUE)
    /\ inits' = [inits EXCEPT ![i].pc = "selftest", ![i].call = Len(calls) + 1]
    /\ UNCHANGED <<triggerMappings, loads, lastSettled, lastRead, lookup, source, ops>>

\* A catch block that leaves the flag as it is.
FlagKeptAfterCatch(flag) == flag

\* The catch block of initialize: this.isInitialized = false.
FlagAfterCatch(flag) == FALSE

\* A catch block that throws the error on: the promise of initialize
\* rejects.
InitializeResultRethrown(state) ==
    IF state = "resolved" THEN "true" ELSE "rejected"

\* What the promise of initialize resolves to, given how the awaited
\* self-test settled: return true, or return false from the catch block.
InitializeResult(state) ==
    IF state = "resolved" THEN "true" ELSE "false"

\* initialize after the self-test settled: return true, or the catch block.
InitializeSettle(i) ==
    /\ inits[i].pc = "selftest"
    /\ calls[inits[i].call].state # "pending"
    /\ inits' = [inits EXCEPT
           ![i].pc = "done",
           ![i].result = InitializeResult(calls[inits[i].call].state)]
    /\ IF calls[inits[i].call].state = "resolved"
       THEN UNCHANGED isInitialized
       ELSE isInitialized' = FlagAfterCatch(isInitialized)
    /\ lastSettled' = i
    /\ UNCHANGED <<engineVars, triggerHistory, triggerMappings, calls, loads,
                   lastRead, lookup, source, ops>>

\* A caller calls the manager's sendTrigger(value, label).
SendTrigger(value, label) ==
    /\ Op
    /\ ManagerSendTrigger("sendTrigger", <<>>, value, label, isInitialized)
    /\ UNCHANGED <<isInitialized, triggerMappings, inits, loads, lastSettled,
                   lastRead, lookup, source>>

\* A caller calls sendTriggerByEvent(eventPath, label).
SendTriggerByEvent(eventPath, label) ==
    /\ Op
    /\ ManagerSendTriggerByEvent(eventPath, label, isInitialized)
    /\ UNCHANGED <<isInitialized, triggerMappings, inits, loads, lastSettled,
                   lastRead, lookup, source>>

\* The manager's promise settles once the engine's has.
ManagerSettle(k) ==
    /\ calls[k].state = "pending"
    /\ engCalls[calls[k].eng].state # "pending"
    /\ calls' = [calls EXCEPT
           ![k].state = ManagerOutcome(engCalls[calls[k].eng].state),
           ![k].error = IF ManagerOutcome(engCalls[calls[k].eng].state) = "rejected"
                        THEN engCalls[calls[k].eng].result.status ELSE "none",
           ![k].settles = @ + 1]
    /\ UNCHANGED <<engineVars, isInitialized, triggerHistory, triggerMappings,
                   inits, loads, lastSettled, lastRead, lookup, source, ops>>

\* getTriggerHistory().
GetTriggerHistory ==
    /\ Op
    /\ lastRead' = triggerHistory
    /\ UNCHANGED <<engineVars, isInitialized, triggerHistory, triggerMappings,
                   calls, inits, loads, lastSettled, lookup, source>>

Next ==
    \/ \E a \in ServerArgs : ConfigureServer(a[1], a[2])
    \/ \E enable \in BOOLEAN : ToggleVerbose(enable)
    \/ \E a \in PerformanceArgs : SetPerformanceMode(a[1], a[2])
    \/ \E v \in DirectValues : SendTriggerDirect(v)
    \/ \E r \in 1..Len(requests), status \in TransportOutcomes :
           TransportSettle(r, status)
    \/ LoadMappings
    \/ \E l \in 1..Len(loads), loaded \in BOOLEAN, doc \in Documents :
           LoadSettle(l, loaded, doc)
    \/ \E a \in InitializeArgs : Initialize(a[1], a[2])
    \/ \E i \in 1..Len(inits) : InitializeLoaded(i)
    \/ \E i \in 1..Len(inits) : InitializeSettle(i)
    \/ \E a \in SendArgs : SendTrigger(a[1], a[2])
    \/ \E a \in EventArgs : SendTriggerByEvent(a[1], a[2])
    \/ \E k \in 1..Len(calls) : ManagerSettle(k)
    \/ GetTriggerHistory

Spec == Init /\ [][Next]_vars

\* ------------------------------------------------- the engine on its own

\* The engine after any calls of toggleVerbose and setPerformanceMode: the
\* three flags can have any values.
EngineConfigs ==
    {[DefaultConfig EXCEPT !.verboseMode = verbose, !.lowLatencyMode = low,
                           !.skipResponseProcessing = skip] :
        verbose \in BOOLEAN, low \in BOOLEAN, skip \in BOOLEAN}

EngineValues == {5, 6}

InitEngine == \E cfg \in EngineConfigs : Constructed(cfg, NoLookup, AnySource)

NextEngine ==
    \/ \E a \in ServerArgs : ConfigureServer(a[1], a[2])
    \/ \E enable \in BOOLEAN : ToggleVerbose(enable)
    \/ \E a \in PerformanceArgs : SetPerformanceMode(a[1], a[2])
    \/ \E v \in EngineValues : SendTriggerDirect(v)
    \/ \E values \in BatchArgs : SendTriggerBatch(values)
    \/ \E r \in 1..Len(requests), status \in TransportOutcomes :
           TransportSettle(r, status)
    \/ \E r \in 1..Len(requests) : TransportRead(r)

SpecEngine == InitEngine /\ [][NextEngine]_vars

\* ------------------------------------ initialize called again and again

\* A mapping source that does not change: it delivers one of the documents
\* to every load, or fails every load.
FixedSources ==
    {FixedSource(TRUE, doc) : doc \in Documents}
    \cup {FixedSource(FALSE, DocNested)}

InitTwice ==
    \E cfg \in EngineConfigs, src \in FixedSources :
        Constructed(cfg, NoLookup, src)

\* initialize called when no other initialize is running.
InitializeInSequence(host, port) ==
    /\ Running = {}
    /\ Initialize(host, port)

NextTwice ==
    \/ \E a \in InitializeArgs : InitializeInSequence(a[1], a[2])
    \/ \E l \in 1..Len(loads), loaded \in BOOLEAN, doc \in Documents :
           LoadSettle(l, loaded, doc)
    \/ \E i \in 1..Len(inits) : InitializeLoaded(i)
    \/ \E r \in 1..Len(requests), status \in TransportOutcomes :
           TransportSettle(r, status)
    \/ \E k \in 1..Len(calls) : ManagerSettle(k)
    \/ \E i \in 1..Len(inits) : InitializeSettle(i)

SpecTwice == InitTwice /\ [][NextTwice]_vars

\* --------------------------------------------- initialize and its awaits

\* Calls of initialize one after the other, with calls of
\* setPerformanceMode between its steps, so that the self-test is sent in
\* every transmission mode and the transport decides how it ends.
AwaitingArgs == {<<FALSE, "undefined">>, <<TRUE, "false">>}

NextInitialize ==
    \/ \E a \in InitializeArgs : InitializeInSequence(a[1], a[2])
    \/ \E a \in AwaitingArgs : SetPerformanceMode(a[1], a[2])
    \/ \E l \in 1..Len(loads), loaded \in BOOLEAN, doc \in Documents :
           LoadSettle(l, loaded, doc)
    \/ \E i \in 1..Len(inits) : InitializeLoaded(i)
    \/ \E r \in 1..Len(requests), status \in TransportOutcomes :
           TransportSettle(r, status)
    \/ \E k \in 1..Len(calls) : ManagerSettle(k)
    \/ \E i \in 1..Len(inits) : InitializeSettle(i)

\* The continuation of an await runs once the awaited promise has settled:
\* the event loop runs every job it has queued.  When the load and the
\* transport settle is left to them.
Continuations ==
    /\ \A i \in 1..MaxOps :
           WF_vars(i <= Len(inits) /\ InitializeLoaded(i))
    /\ \A k \in 1..MaxOps :
           WF_vars(k <= Len(calls) /\ ManagerSettle(k))
    /\ \A i \in 1..MaxOps :
           WF_vars(i <= Len(inits) /\ InitializeSettle(i))

SpecInitialize == Init /\ [][NextInitialize]_vars /\ Continuations

\* ----------------------------------------------- the resolver on its own

\* Segments, paths, leaves and documents the resolver is called with.
ResolvePaths == {<<"a">>, <<"a", "b">>, <<"a", "b", "c">>, <<"b">>}
ResolveValues == {0, 5}
ResolveLeaves ==
    {Num(n) : n \in ResolveValues} \cup {Str("x"), NullValue, Obj(<<>>)}

\* The document with path as one literal top-level key.
FlatDoc(path, leaf) == Obj(path :> leaf)

\* The document in which the segments of path lead to the leaf.
RECURSIVE NestedDoc(_, _)
NestedDoc(path, leaf) ==
    Obj(<<Head(path)>> :>
            (IF Len(path) = 1 THEN leaf ELSE NestedDoc(Tail(path), leaf)))

\* A document with the same path in both shapes.
DocBothShapes ==
    Obj((<<"a", "b">> :> Num(1)) @@ (<<"a">> :> Obj(<<"b">> :> Num(2))))

\* A document whose literal key for a path holds a string while the
\* segments of the path lead to a number.
DocLiteralNotNumeric ==
    Obj((<<"a", "b">> :> Str("x")) @@ (<<"a">> :> Obj(<<"b">> :> Num(2))))

ResolveDocs ==
    {FlatDoc(p, leaf) : p \in ResolvePaths, leaf \in ResolveLeaves}
    \cup {NestedDoc(p, leaf) : p \in ResolvePaths, leaf \in ResolveLeaves}
    \cup {DocBothShapes, DocLiteralNotNumeric, NullValue}

InitResolve ==
    \E doc \in ResolveDocs, path \in ResolvePaths :
        Constructed(DefaultConfig,
                    [pc |-> "called", mappings |-> doc, eventPath |-> path,
                     result |-> Null("none")],
                    AnySource)

\* getTriggerValue(eventPath) of a manager whose triggerMappings is mappings.
GetTriggerValue ==
    /\ lookup.pc = "called"
    /\ lookup' = [lookup EXCEPT
           !.pc = "returned",
           !.result = getTriggerValue(lookup.mappings, lookup.eventPath)]
    /\ UNCHANGED <<engineVars, isInitialized, triggerHistory, triggerMappings,
                   calls, inits, loads, lastSettled, lastRead, source, ops>>

NextResolve == GetTriggerValue

SpecResolve == InitResolve /\ [][NextResolve]_vars

\* ----------------------------------------------------------------- claims

IsPrefix(s, t) == Len(s) <= Len(t) /\ SubSeq(t, 1, Len(s)) = s

\* The step is a call of the manager's op by a caller: one more promise in
\* calls, and one more call of the API counted.
CalledByCaller(op) ==
    /\ ops' = ops + 1
    /\ Len(calls') = Len(calls) + 1
    /\ calls'[Len(calls')].op = op

\* The step neither appends to the ledger nor issues a transport request.
NoDispatchNoEntry ==
    /\ triggerHistory' = triggerHistory
    /\ requests' = requests
    /\ engCalls' = engCalls
    /\ fetchOptions' = fetchOptions

\* No initialize was ever called, or none is running and the one that
\* settled last resolved to false.
NeverInitializedOrFailed ==
    \/ Len(inits) = 0
    \/ /\ Running = {}
       /\ lastSettled # 0
       /\ inits[lastSettled].result = "false"

\* C1: sendTrigger(value, label) on a manager that was never initialized, or
\* whose last initialize failed, is rejected with NotInitialized, appends
\* nothing to the ledger and issues no transport request.
C1_SendTriggerNotInitialized ==
    [][(NeverInitializedOrFailed /\ CalledByCaller("sendTrigger")) =>
           /\ calls'[Len(calls')].state = "rejected"
           /\ calls'[Len(calls')].error = "NotInitialized"
           /\ NoDispatchNoEntry]_vars

\* A sendTrigger made after the only initialize had failed was rejected.
C1_Witness ==
    \E k \in 1..Len(calls) :
        /\ calls[k].op = "sendTrigger"
        /\ calls[k].running = 0
        /\ calls[k].after # 0
        /\ inits[calls[k].after].result = "false"
        /\ calls[k].error = "NotInitialized"

\* C2 as stated: the flag is true only if some initialize has applied the
\* configuration, loaded the mapping document and had its self-test
\* dispatch settle successfully.
C2_FlagOnlyAfterSelfTestSettled ==
    isInitialized =>
        \E i \in 1..Len(inits) :
            /\ inits[i].call # 0
            /\ calls[inits[i].call].state = "resolved"

\* C2 as amended: the flag is true only if some initialize has applied the
\* configuration and finished loading the mapping document, and either has
\* sent its self-test and not yet returned, or has resolved to true.
C2_FlagOnlyAfterLoad ==
    isInitialized =>
        \E i \in 1..Len(inits) :
            /\ loads[inits[i].load].state = "done"
            /\ \/ inits[i].pc = "selftest"
               \/ inits[i].pc = "done" /\ inits[i].result = "true"

\* The flag is true while the self-test dispatch of the only initialize is
\* still waiting for the transport.
C2_Witness ==
    /\ isInitialized
    /\ Len(inits) = 1
    /\ inits[1].pc = "selftest"
    /\ calls[inits[1].call].state = "pending"
    /\ engCalls[calls[inits[1].call].eng].state = "pending"

C3_AloneInitializeResultMatchesState ==
    [][\A i \in 1..Len(inits) :
           (inits[i].pc = "selftest" /\ inits'[i].pc = "done"
                /\ ~inits[i].overlapped) =>
               IF calls[inits[i].call].state = "rejected"
               THEN inits'[i].result = "false" /\ ~isInitialized'
               ELSE inits'[i].result = "true" /\ isInitialized']_vars

\* The step is a call of sendTriggerByEvent by a caller, with this path.
EventCalledByCaller(eventPath) ==
    /\ CalledByCaller("sendTriggerByEvent")
    /\ calls'[Len(calls')].path = eventPath

\* C4: when sendTriggerByEvent(path, label) cannot resolve path to a code it
\* fails at once, issues no transport request and leaves the ledger
\* unchanged, whatever the mapping document and the state of the manager.
C4_UnresolvedEventFailsAtOnce ==
    [][\A eventPath \in Paths :
           (/\ getTriggerValue(triggerMappings, eventPath).isNull
            /\ \/ EventCalledByCaller(eventPath)
               \/ /\ eventPath = SelfTestPath
                  /\ \E i \in 1..Len(inits) :
                         inits[i].pc = "loading" /\ inits'[i].pc = "selftest") =>
               /\ calls'[Len(calls')].state = "rejected"
               /\ calls'[Len(calls')].error = "NoTriggerValue"
               /\ NoDispatchNoEntry]_vars

\* A path that does not resolve was sent by event on a manager whose only
\* initialize had succeeded.
C4_Witness ==
    \E k \in 1..Len(calls) :
        /\ calls[k].op = "sendTriggerByEvent"
        /\ calls[k].running = 0
        /\ calls[k].after # 0
        /\ inits[calls[k].after].result = "true"
        /\ isInitialized
        /\ triggerMappings # NullValue
        /\ getTriggerValue(triggerMappings, calls[k].path).isNull
        /\ calls[k].error = "NoTriggerValue"

\* C5 as stated: sendTriggerByEvent on a manager that is not initialized
\* fails with NotInitialized, whatever the path, and touches neither the
\* ledger nor the transport.
C5_EventNotInitializedWhateverPath ==
    [][(~isInitialized /\ CalledByCaller("sendTriggerByEvent")) =>
           /\ calls'[Len(calls')].state = "rejected"
           /\ calls'[Len(calls')].error = "NotInitialized"
           /\ NoDispatchNoEntry]_vars

\* C5 as amended: sendTriggerByEvent on a manager that is not initialized
\* fails and touches neither the ledger nor the transport; the failure is
\* NotInitialized when the path resolves in the loaded mapping document and
\* the resolver's failure (no trigger value) when it does not, which is
\* every path as long as no document was loaded.
C5_EventNotInitializedFails ==
    [][\A eventPath \in Paths :
           (~isInitialized /\ EventCalledByCaller(eventPath)) =>
               /\ calls'[Len(calls')].state = "rejected"
               /\ calls'[Len(calls')].error =
                      IF getTriggerValue(triggerMappings, eventPath).isNull
                      THEN "NoTriggerValue" ELSE "NotInitialized"
               /\ triggerMappings = NullValue =>
                      calls'[Len(calls')].error = "NoTriggerValue"
               /\ NoDispatchNoEntry]_vars

\* After a failed initialize, a path that resolves in the loaded document
\* was sent by event and rejected with NotInitialized.
C5_Witness ==
    \E k \in 1..Len(calls) :
        /\ calls[k].op = "sendTriggerByEvent"
        /\ calls[k].running = 0
        /\ calls[k].after # 0
        /\ inits[calls[k].after].result = "false"
        /\ calls[k].error = "NotInitialized"
        /\ calls[k].eng = 0
        /\ calls[k].hist = 0

\* The promises of the manager whose call reached the engine.
Dispatched == {k \in 1..Len(calls) : calls[k].eng # 0}

\* C6: for every sendTrigger a Ready manager accepts, the ledger entry
\* {value, label, timestamp} is there before the dispatch settles, and it
\* stays whether the dispatch later succeeds, fails or never settles.
C6_EntryBeforeDispatchSettles ==
    \A k \in Dispatched :
        /\ calls[k].hist \in 1..Len(triggerHistory)
        /\ triggerHistory[calls[k].hist].value = calls[k].value
        /\ triggerHistory[calls[k].hist].label = calls[k].label
        /\ triggerHistory[calls[k].hist].timestamp \in 0..ops
        /\ \A m \in Dispatched : m # k => calls[m].hist # calls[k].hist

\* The entry of an accepted sendTrigger is in the ledger while its dispatch
\* is still waiting for the transport.
C6_Witness ==
    \E k \in Dispatched :
        /\ calls[k].state = "pending"
        /\ engCalls[calls[k].eng].state = "pending"
        /\ requests[engCalls[calls[k].eng].req].status = "inflight"
        /\ triggerHistory[calls[k].hist].value = calls[k].value

\* C7: after initialize succeeds the ledger holds an entry for the self-test
\* event, and the length of getTriggerHistory() grows by exactly one for
\* each successful sendTrigger, in every transmission mode: the ledger has
\* one entry for each call that reached the engine, and every call that
\* resolved is one of them.
C7_OneEntryPerSend ==
    /\ \A i \in 1..Len(inits) :
           inits[i].result = "true" =>
               \E h \in 1..Len(triggerHistory) :
                   /\ triggerHistory[h].label = FullLabel(SelfTestPath, SelfTestLabel)
                   /\ triggerHistory[h].value = calls[inits[i].call].value
                   /\ h = calls[inits[i].call].hist
    /\ Len(triggerHistory) = Cardinality(Dispatched)
    /\ \A k \in 1..Len(calls) : calls[k].state = "resolved" => k \in Dispatched

\* After a successful initialize a sendTrigger of a caller resolved: the
\* ledger holds the self-test and the trigger sent.
C7_Witness ==
    \E k \in 1..Len(calls) :
        /\ calls[k].op = "sendTrigger"
        /\ calls[k].state = "resolved"
        /\ calls[k].after # 0
        /\ inits[calls[k].after].result = "true"
        /\ Len(triggerHistory) = 2

\* C8: the ledger is append-only: over any step of any operation the ledger
\* before is a prefix of the ledger after, and what getTriggerHistory
\* returned earlier is a prefix of the ledger ever after.
C8_LedgerAppendOnly ==
    /\ [](IsPrefix(lastRead, triggerHistory))
    /\ [][IsPrefix(triggerHistory, triggerHistory')]_vars

\* Two initialize calls have both settled and the ledger holds the entry of
\* the first self-test followed by the entry of the second.
C8_Witness ==
    /\ Len(inits) = 2
    /\ Running = {}
    /\ Len(triggerHistory) = 2
    /\ triggerHistory[1] # triggerHistory[2]

\* C9: the promise of the manager's sendTrigger settles exactly once and
\* only after the engine's promise has settled: it is resolved only if the
\* dispatch succeeded and rejected, with the dispatch's error, only if it
\* failed.
C9_SettlesWithDispatch ==
    \A k \in Dispatched :
        /\ calls[k].settles <= 1
        /\ calls[k].state = "pending" <=> calls[k].settles = 0
        /\ calls[k].state = "resolved" =>
               /\ engCalls[calls[k].eng].state = "resolved"
               /\ calls[k].error = "none"
        /\ calls[k].state = "rejected" =>
               /\ engCalls[calls[k].eng].state = "rejected"
               /\ calls[k].error = engCalls[calls[k].eng].result.status
               /\ calls[k].error = requests[engCalls[calls[k].eng].req].status

\* A dispatch failed at the transport and the manager's promise rejected
\* with that failure.
C9_Witness ==
    \E k \in Dispatched :
        /\ calls[k].state = "rejected"
        /\ calls[k].error = "httpError"
        /\ engCalls[calls[k].eng].state = "rejected"

\* C10: with lowLatency and skipResponse both true, send(v) returns an
\* already-resolved outcome {status: "pending", triggerValue: v}, the same
\* whether the transport later succeeds, fails or never settles.
C10_SkipResponseResolvedAtOnce ==
    \A j \in 1..Len(engCalls) :
        (engCalls[j].lowLatency /\ engCalls[j].skipResponse) =>
            /\ engCalls[j].state = "resolved"
            /\ engCalls[j].result = [status |-> "pending",
                                     triggerValue |-> engCalls[j].value]
            /\ engCalls[j].req \in 1..Len(requests)

\* The transport failed for one send in skip-response mode and has not
\* answered another; both outcomes are the resolved "pending".
C10_Witness ==
    \E j, m \in 1..Len(engCalls) :
        /\ engCalls[j].lowLatency /\ engCalls[j].skipResponse
        /\ engCalls[m].lowLatency /\ engCalls[m].skipResponse
        /\ requests[engCalls[j].req].status = "networkError"
        /\ requests[engCalls[m].req].status = "inflight"
        /\ engCalls[j].result.status = "pending"
        /\ engCalls[m].result.status = "pending"

\* The URL of the set_data endpoint of a configuration, and the JSON text
\* of {"trigger_value": v}.
SetDataUrl(cfg) == "http://" \o cfg.host \o ":" \o ToString(cfg.port) \o "/set_data"
TriggerValueJson(v) == "{\"trigger_value\":" \o ToString(v) \o "}"

\* C11: every call of send(v), in standard, low-latency and skip-response
\* mode, issues exactly one transport request, a POST to /set_data with
\* body {"trigger_value": v}; the transport sees one request per call and
\* no more, so none is issued again after a failure.
C11_OneRequestPerSend ==
    /\ Len(requests) = Len(engCalls) + Len(batchCalls)
    /\ \A j \in 1..Len(engCalls) :
           /\ engCalls[j].req \in 1..Len(requests)
           /\ requests[engCalls[j].req].method = "POST"
           /\ requests[engCalls[j].req].url = SetDataUrl(engCalls[j].cfg)
           /\ requests[engCalls[j].req].body = TriggerValueJson(engCalls[j].value)
           /\ \A m \in 1..Len(engCalls) :
                  m # j => engCalls[m].req # engCalls[j].req

\* A send in low-latency mode whose request failed, followed by another
\* send: the transport has seen two requests.
C11_Witness ==
    /\ Len(engCalls) = 2
    /\ Len(requests) = 2
    /\ engCalls[1].lowLatency
    /\ requests[engCalls[1].req].status = "networkError"
    /\ requests[engCalls[2].req].status = "inflight"

\* The engine's promises that wait for the response.
Awaited == {j \in 1..Len(engCalls) : ~(engCalls[j].lowLatency /\ engCalls[j].skipResponse)}

\* C12 as stated: when the response is awaited, send(v) succeeds with the
\* decoded body if and only if the transport answers with a success status.
C12_SucceedsIffSuccessStatus ==
    \A j \in Awaited :
        requests[engCalls[j].req].status # "inflight" =>
            (engCalls[j].state = "resolved"
                <=> requests[engCalls[j].req].status \in {"ok", "okNotJson"})

\* C12: when the response is awaited (standard mode, or low-latency mode
\* with skipResponse false), send(v) is pending until the transport
\* settles; it succeeds with the decoded body if and only if the transport
\* answers with a success status and a body that is JSON; a success status
\* with another body, a non-success status and a fault of the transport
\* make it fail with that error; the outcome is the same in both modes.
C12_AwaitedOutcomeFollowsTransport ==
    \A j \in Awaited :
        /\ requests[engCalls[j].req].status = "inflight" =>
               engCalls[j].state = "pending"
        /\ requests[engCalls[j].req].status = "ok" =>
               engCalls[j].state = "resolved" /\ engCalls[j].result = JsonResult
        /\ requests[engCalls[j].req].status
               \in {"okNotJson", "httpError", "networkError"} =>
               /\ engCalls[j].state = "rejected"
               /\ engCalls[j].result.status = requests[engCalls[j].req].status

\* Of two sends in low-latency mode that wait for the response one
\* succeeded, and the other failed although the status was a success: its
\* body was not JSON.
C12_Witness ==
    \E j, m \in Awaited :
        /\ engCalls[j].lowLatency /\ engCalls[j].state = "rejected"
        /\ requests[engCalls[j].req].status = "okNotJson"
        /\ engCalls[m].lowLatency /\ engCalls[m].state = "resolved"
        /\ requests[engCalls[m].req].status = "ok"

\* What a caller and the console see of a promise of the engine.
Outcome(call) == [state |-> call.state, result |-> call.result, log |-> call.log]

\* The call was made with lowLatency false, on two engines whose
\* configurations differed in skipResponse and in nothing else.
DifferOnlyInSkipResponse(call, other) ==
    /\ ~call.cfg.lowLatencyMode
    /\ other.cfg = OtherSkipResponse(call.cfg)

\* C13: skipResponse has no effect unless lowLatency is true.  Two engines
\* are given the same send and sendBatch calls and the same answers of the
\* transport; for every call made while their configurations differ only
\* in skipResponse and lowLatency is false, both issue the same request and
\* return the same outcome.
C13_SkipResponseIgnoredUnlessLowLatency ==
    /\ Len(twin.engCalls) = Len(engCalls)
    /\ Len(twin.batchCalls) = Len(batchCalls)
    /\ Len(twin.requests) = Len(requests)
    /\ \A j \in 1..Len(engCalls) :
           DifferOnlyInSkipResponse(engCalls[j], twin.engCalls[j]) =>
               /\ twin.engCalls[j].req = engCalls[j].req
               /\ twin.requests[engCalls[j].req] = requests[engCalls[j].req]
               /\ Outcome(twin.engCalls[j]) = Outcome(engCalls[j])
    /\ \A j \in 1..Len(batchCalls) :
           DifferOnlyInSkipResponse(batchCalls[j], twin.batchCalls[j]) =>
               /\ twin.batchCalls[j].req = batchCalls[j].req
               /\ twin.requests[batchCalls[j].req] = requests[batchCalls[j].req]
               /\ Outcome(twin.batchCalls[j]) = Outcome(batchCalls[j])

\* A send that failed and a batch that succeeded, on an engine with
\* skipResponse true and one with skipResponse false, both in standard mode.
C13_Witness ==
    \E j \in 1..Len(engCalls), b \in 1..Len(batchCalls) :
        /\ DifferOnlyInSkipResponse(engCalls[j], twin.engCalls[j])
        /\ DifferOnlyInSkipResponse(batchCalls[b], twin.batchCalls[b])
        /\ engCalls[j].cfg.skipResponseProcessing
        /\ ~twin.engCalls[j].cfg.skipResponseProcessing
        /\ engCalls[j].state = "rejected"
        /\ batchCalls[b].state = "resolved"

\* What the segments of a path lead to in a document, one level for each
\* segment; Undefined when a segment is absent.
RECURSIVE ValueAt(_, _)
ValueAt(doc, path) ==
    IF path = <<>> THEN doc
    ELSE IF doc.t = "obj" /\ <<Head(path)>> \in DOMAIN doc.kids
         THEN ValueAt(doc.kids[<<Head(path)>>], Tail(path))
         ELSE Undefined

\* The document has the whole path as one top-level key with a number.
HasLiteral(doc, path) ==
    doc.t = "obj" /\ path \in DOMAIN doc.kids /\ doc.kids[path].t = "num"

\* The segments of the path lead through a null before the last of them.
ThroughNull(doc, path) ==
    \E k \in 1..(Len(path) - 1) : ValueAt(doc, SubSeq(path, 1, k)) = NullValue

\* What getTriggerValue hands to its caller: a number or null.
ReturnValue(result) == IF result.isNull THEN NullValue ELSE Num(result.value)

Returned == lookup.pc = "returned"

\* C14 as stated: the failure for a terminal value that is not numeric is
\* distinct from the failure for an absent segment, so what resolve hands
\* back in the one case differs from what it hands back in the other.
C14_InvalidLeafDistinctFromNotFound ==
    (/\ Returned
     /\ ~HasLiteral(lookup.mappings, lookup.eventPath)
     /\ ValueAt(lookup.mappings, lookup.eventPath) # Undefined
     /\ ValueAt(lookup.mappings, lookup.eventPath).t # "num")
        => ReturnValue(lookup.result) # ReturnValue(Null("NotFound"))

\* C14: getTriggerValue(path) returns the integer at the leaf when every
\* segment of the path exists and the terminal value is numeric (the
\* integer under the literal key when the document has the whole path as
\* one numeric top-level key).  In every other case it returns null and
\* only the message it logs tells the cases apart: path not found when a
\* segment is absent, invalid trigger value when the terminal value is not
\* numeric, a lookup error when the path leads through a null, mappings not
\* loaded when there is no document.
C14_ResolveReturnsLeafOrNull ==
    Returned =>
        LET doc == lookup.mappings
            path == lookup.eventPath
            leaf == ValueAt(doc, path)
            res == lookup.result
        IN  /\ HasLiteral(doc, path) => res = Found(doc.kids[path].v)
            /\ (~HasLiteral(doc, path) /\ leaf.t = "num") => res = Found(leaf.v)
            /\ (~HasLiteral(doc, path) /\ leaf.t # "num") =>
                   /\ ReturnValue(res) = NullValue
                   /\ res.logged =
                          IF doc = NullValue THEN "NotLoaded"
                          ELSE IF ThroughNull(doc, path) THEN "LookupError"
                          ELSE IF leaf = Undefined THEN "NotFound"
                          ELSE "InvalidLeaf"

\* The path a.b.c was looked up in {"a": {"b": {"c": "x"}}}: null came back
\* and the invalid value was logged.
C14_Witness ==
    /\ Returned
    /\ lookup.eventPath = <<"a", "b", "c">>
    /\ lookup.mappings = NestedDoc(<<"a", "b", "c">>, Str("x"))
    /\ lookup.result = Null("InvalidLeaf")

\* C15: for every path and integer n, getTriggerValue(path) returns n both
\* against the flat document that has the path as a literal top-level key
\* with value n and against the nested document in which the segments of
\* the path lead to the leaf n.
C15_FlatAndNestedAgree ==
    \A n \in ResolveValues :
        (/\ Returned
         /\ lookup.mappings \in {FlatDoc(lookup.eventPath, Num(n)),
                                 NestedDoc(lookup.eventPath, Num(n))})
            => lookup.result = Found(n)

\* The path a.b.c was looked up in the flat document {"a.b.c": 0}, which
\* is not the nested one, and 0 came back.
C15_Witness ==
    /\ Returned
    /\ lookup.eventPath = <<"a", "b", "c">>
    /\ lookup.mappings = FlatDoc(lookup.eventPath, Num(0))
    /\ lookup.mappings # NestedDoc(lookup.eventPath, Num(0))
    /\ lookup.result = Found(0)

\* The events of the fallback mapping.
FallbackEvents == {<<"system", "test">>, <<"system", "initialized">>,
                   <<"system", "error">>}

\* C16: if loading the mapping document fails, initialize does not abort.
\* A load that settles leaves either a document of the source or, having
\* failed, the built-in fallback, and it leaves every initialize running;
\* system.test, system.initialized and system.error each resolve to an
\* integer in the fallback; an initialize that resumes on the fallback
\* dispatches the self-test with the code 99; and it reports success if
\* that dispatch succeeds, so that it reports failure only after a
\* self-test that was rejected.
C16_LoadFailureFallsBack ==
    /\ [](\A p \in FallbackEvents : ~getTriggerValue(FallbackMappings, p).isNull)
    /\ [](\A i \in 1..Len(inits) :
              inits[i].result = "false" => calls[inits[i].call].state = "rejected")
    /\ [][\A l \in 1..Len(loads) :
              (loads[l].state = "inflight" /\ loads'[l].state = "done")
                  => /\ triggerMappings' \in Documents \cup {FallbackMappings}
                     /\ \A i \in 1..Len(inits) : inits'[i] = inits[i]]_vars
    /\ [][\A i \in 1..Len(inits) :
              (/\ triggerMappings = FallbackMappings
               /\ inits[i].pc = "loading"
               /\ inits'[i].pc # "loading")
                  => /\ inits'[i].pc = "selftest"
                     /\ calls'[inits'[i].call].eng = Len(engCalls')
                     /\ calls'[inits'[i].call].value = 99
                     /\ Len(engCalls') = Len(engCalls) + 1
                     /\ Len(requests') = Len(requests) + 1]_vars
    /\ [][\A i \in 1..Len(inits) :
              (/\ triggerMappings = FallbackMappings
               /\ inits[i].pc = "selftest"
               /\ inits'[i].pc = "done"
               /\ calls[inits[i].call].state = "resolved")
                  => inits'[i].result = "true"]_vars

\* An initialize whose load failed has sent the self-test 99 from the
\* fallback mapping and has reported success.
C16_Witness ==
    \E i \in 1..Len(inits) :
        /\ triggerMappings = FallbackMappings
        /\ inits[i].result = "true"
        /\ calls[inits[i].call].value = 99
        /\ calls[inits[i].call].state = "resolved"
        /\ isInitialized

\* What one call of initialize(host, port) leaves when it has returned,
\* against a mapping source src: the document of the source or the fallback,
\* the configuration with the three flags set, and the flag that tells
\* whether the self-test event is in that document.
OnceMappings(src) == IF src.loaded THEN src.doc ELSE FallbackMappings
OnceConfig(host, port) ==
    [host |-> host, port |-> port, verboseMode |-> TRUE,
     lowLatencyMode |-> TRUE, skipResponseProcessing |-> TRUE]
OnceInitialized(src) == ~getTriggerValue(OnceMappings(src), SelfTestPath).isNull
SelfTestEntry(entry) ==
    entry.value = 99 /\ entry.label = "system.test - Test trigger on initialization"

\* C17: initialize called again in sequence with the same arguments,
\* against an unchanged mapping source and transport, leaves what the first
\* call left: whenever all the calls made so far have returned, the
\* mapping document, the configuration and the initialized flag are those
\* one call leaves, and every call returned what the first returned; the
\* ledger alone differs, by one self-test entry for each call that sent
\* its self-test.
C17_AgainLeavesWhatOnceLeft ==
    (Len(inits) >= 1 /\ Running = {}) =>
        /\ triggerMappings = OnceMappings(source)
        /\ serverConfig = OnceConfig(inits[1].host, inits[1].port)
        /\ isInitialized = OnceInitialized(source)
        /\ \A i \in 1..Len(inits) :
               (inits[i].result = "true") = OnceInitialized(source)
        /\ Len(triggerHistory) = IF OnceInitialized(source) THEN Len(inits) ELSE 0
        /\ \A h \in 1..Len(triggerHistory) : SelfTestEntry(triggerHistory[h])

\* Two calls of initialize have returned, one after the other, and the
\* ledger has the two self-test entries.
C17_Witness ==
    /\ Len(inits) = 2
    /\ Running = {}
    /\ isInitialized
    /\ inits[2].result = "true"
    /\ Len(triggerHistory) = 2
    /\ triggerMappings = DocNested

\* The lines a call of send writes if the verbose flag it was issued with
\* governs all of its logging; status is how its request stands.
LogAsIssued(call, status) ==
    SendingLog(call.cfg)
    \o (IF SkipsResponse(call.cfg) \/ status = "inflight" THEN <<>>
        ELSE ResponseLog(status, call.cfg.verboseMode)
             \o ErrorLog(status, call.lowLatency, call.cfg.verboseMode))

\* C18: a configuration change made while a dispatch is in flight affects
\* only dispatches issued afterwards: the dispatch in flight keeps the URL,
\* the payload, the logging behaviour and the response handling of the
\* configuration in force when it was issued.
C18_InFlightKeepsConfiguration ==
    \A j \in 1..Len(engCalls) :
        /\ requests[engCalls[j].req].url = SetDataUrl(engCalls[j].cfg)
        /\ requests[engCalls[j].req].body = TriggerValueJson(engCalls[j].value)
        /\ SkipsResponse(engCalls[j].cfg) => engCalls[j].state = "resolved"
        /\ (~SkipsResponse(engCalls[j].cfg)
               /\ requests[engCalls[j].req].status = "inflight")
               => engCalls[j].state = "pending"
        /\ engCalls[j].log = LogAsIssued(engCalls[j], requests[engCalls[j].req].status)

\* The part of C18 that holds: the URL, the payload and the response
\* handling of a dispatch in flight are those of the configuration it was
\* issued with, whatever the configuration has become.
C18_InFlightKeepsRequestAndHandling ==
    \A j \in 1..Len(engCalls) :
        /\ requests[engCalls[j].req].url = SetDataUrl(engCalls[j].cfg)
        /\ requests[engCalls[j].req].body = TriggerValueJson(engCalls[j].value)
        /\ SkipsResponse(engCalls[j].cfg) => engCalls[j].state = "resolved"
        /\ (~SkipsResponse(engCalls[j].cfg)
               /\ requests[engCalls[j].req].status = "inflight")
               => engCalls[j].state = "pending"
        /\ (~SkipsResponse(engCalls[j].cfg)
               /\ requests[engCalls[j].req].status # "inflight")
               => engCalls[j].state # "pending"

\* The URL of the batch endpoint of a configuration, and the JSON text of
\* {"trigger_values": codes}.
BatchUrl(cfg) == SetDataUrl(cfg) \o "/batch"
RECURSIVE CommaSeparated(_)
CommaSeparated(codes) ==
    IF codes = <<>> THEN ""
    ELSE ToString(Head(codes))
         \o (IF Tail(codes) = <<>> THEN "" ELSE "," \o CommaSeparated(Tail(codes)))
TriggerValuesJson(codes) == "{\"trigger_values\":[" \o CommaSeparated(codes) \o "]}"

\* C19: sendBatch(codes) issues exactly one POST to the /set_data/batch
\* path with body {"trigger_values": codes}, a request of its own; it is
\* pending while the transport has not settled that request and then
\* settles with the transport's outcome (resolved on a success with a JSON
\* body, rejected with the error otherwise), in every configuration,
\* lowLatency and skipResponse both true included.
C19_BatchOneRequestAlwaysAwaited ==
    /\ Len(requests) = Len(engCalls) + Len(batchCalls)
    /\ \A b \in 1..Len(batchCalls) :
           /\ batchCalls[b].req \in 1..Len(requests)
           /\ requests[batchCalls[b].req].method = "POST"
           /\ requests[batchCalls[b].req].url = BatchUrl(batchCalls[b].cfg)
           /\ requests[batchCalls[b].req].body = TriggerValuesJson(batchCalls[b].values)
           /\ \A m \in 1..Len(batchCalls) :
                  m # b => batchCalls[m].req # batchCalls[b].req
           /\ \A j \in 1..Len(engCalls) : engCalls[j].req # batchCalls[b].req
           /\ requests[batchCalls[b].req].status = "inflight" =>
                  batchCalls[b].state = "pending"
           /\ requests[batchCalls[b].req].status = "ok" =>
                  /\ batchCalls[b].state = "resolved"
                  /\ batchCalls[b].result = JsonResult
           /\ requests[batchCalls[b].req].status
                  \in {"okNotJson", "httpError", "networkError"} =>
                  /\ batchCalls[b].state = "rejected"
                  /\ batchCalls[b].result.status = requests[batchCalls[b].req].status

\* Two batches sent in skip-response mode: one is pending with its request
\* in flight, the other was rejected when its request failed.
C19_Witness ==
    \E b, m \in 1..Len(batchCalls) :
        /\ SkipsResponse(batchCalls[b].cfg)
        /\ SkipsResponse(batchCalls[m].cfg)
        /\ batchCalls[b].values = <<5, 6>>
        /\ requests[batchCalls[b].req].status = "inflight"
        /\ batchCalls[b].state = "pending"
        /\ requests[batchCalls[m].req].status = "httpError"
        /\ batchCalls[m].state = "rejected"

\* C20: transport requests are issued in the order in which the send calls
\* are made, also when earlier sends have not settled: of two calls the
\* earlier one's request, carrying its value, comes first among the
\* requests the transport has seen.  The order in which overlapping sends
\* settle is not fixed (C20_Witness: a later send has settled and an
\* earlier one has not).
C20_RequestsInCallOrder ==
    \A j, m \in 1..Len(engCalls) :
        j < m =>
            /\ engCalls[j].req < engCalls[m].req
            /\ requests[engCalls[j].req].body = TriggerValueJson(engCalls[j].value)
            /\ requests[engCalls[m].req].body = TriggerValueJson(engCalls[m].value)

\* send(5) and then send(6) were called; the request of send(5) is still
\* in flight and send(5) pending, send(6) has settled.
C20_Witness ==
    /\ Len(engCalls) = 2
    /\ engCalls[1].value = 5 /\ engCalls[2].value = 6
    /\ engCalls[1].req < engCalls[2].req
    /\ requests[engCalls[1].req].status = "inflight"
    /\ engCalls[1].state = "pending"
    /\ requests[engCalls[2].req].status = "ok"
    /\ engCalls[2].state = "resolved"

Failures == {"httpError", "networkError"}
LoggedStamped(call) ==
    /\ Len(call.log) >= 1
    /\ call.log[1] = LogLine("sending", TRUE)
    /\ requests[call.req].status # "inflight" =>
           /\ Len(call.log) = 2
           /\ call.log[2].stamped
    /\ requests[call.req].status \in Failures =>
           \E n \in 1..Len(call.log) :
               call.log[n].what = "error" /\ call.log[n].stamped

\* C22: with verbose = true every dispatch (send in each transmission mode,
\* and sendBatch) writes one timestamped log entry immediately before the
\* transport call and one timestamped entry when its response or error
\* arrives, and every dispatch failure is logged with a timestamp.
C22_VerboseDispatchLogsStamped ==
    /\ \A j \in 1..Len(engCalls) :
           engCalls[j].cfg.verboseMode /\ serverConfig.verboseMode =>
               LoggedStamped(engCalls[j])
    /\ \A b \in 1..Len(batchCalls) :
           batchCalls[b].cfg.verboseMode /\ serverConfig.verboseMode =>
               LoggedStamped(batchCalls[b])

\* What does hold of a verbose dispatch: the stamped line before the fetch
\* on every path; on the standard path and in a batch a stamped line for
\* the response and a stamped line for the error.
C22_StandardAndBatchLogStamped ==
    /\ \A j \in 1..Len(engCalls) :
           engCalls[j].cfg.verboseMode =>
               /\ Len(engCalls[j].log) >= 1
               /\ engCalls[j].log[1] = LogLine("sending", TRUE)
    /\ \A j \in 1..Len(engCalls) :
           /\ engCalls[j].cfg.verboseMode /\ serverConfig.verboseMode
           /\ ~engCalls[j].lowLatency
           /\ requests[engCalls[j].req].status \in Failures \cup {"ok"}
           => LoggedStamped(engCalls[j])
    /\ \A b \in 1..Len(batchCalls) :
           /\ batchCalls[b].cfg.verboseMode /\ serverConfig.verboseMode
           /\ requests[batchCalls[b].req].status \in Failures \cup {"ok"}
           => LoggedStamped(batchCalls[b])

\* C23: a call of initialize(host, port, path) leaves the dispatch engine
\* configured with the given host and port and with verbose, lowLatency
\* and skipResponse all true, whatever the configuration was before: that
\* is the configuration from the call on, and it is the configuration when
\* the call has completed, whether it returned true or false.
C23_InitializeFixesConfiguration ==
    \A i \in 1..Len(inits) :
        i = Len(inits) =>
            /\ serverConfig.host = inits[i].host
            /\ serverConfig.port = inits[i].port
            /\ serverConfig.verboseMode
            /\ serverConfig.lowLatencyMode
            /\ serverConfig.skipResponseProcessing

\* initialize("h", 1) has completed with false (the document has no
\* system.test) and the configuration is h:1 with the three flags set.
C23_Witness ==
    /\ Len(inits) = 1
    /\ inits[1].pc = "done"
    /\ inits[1].result = "false"
    /\ ~isInitialized
    /\ serverConfig.host = "h" /\ serverConfig.port = 1
    /\ serverConfig.verboseMode /\ serverConfig.skipResponseProcessing

\* The step completes initialize number i with this result.
Completes(i, result) ==
    /\ inits[i].pc = "selftest"
    /\ inits'[i].pc = "done"
    /\ inits'[i].result = result

\* The initialize that settled last has failed and none is running.
Failed == /\ lastSettled # 0
          /\ inits[lastSettled].result = "false"
          /\ Running = {}

\* C24: a failed initialize is not fatal.  Its failure leaves the ledger
\* as it was, and getTriggerHistory returns the ledger as it is whatever
\* the state of the manager, so after a failure as well; a later
\* call of initialize runs the whole sequence again (the configuration, a
\* load of its own and, after the load, a self-test of its own) and leaves
\* the manager initialized when it returns true; and an initialize called
\* after one that returned true leaves the manager not initialized when it
\* returns false.  The later initialize is one that no other overlaps.
C24_FailedInitializeIsNotFatal ==
    [][/\ \A i \in 1..Len(inits) :
              Completes(i, "false") => triggerHistory' = triggerHistory
       /\ lastRead' # lastRead =>
              lastRead' = triggerHistory /\ triggerHistory' = triggerHistory
       /\ (Failed /\ Len(inits') = Len(inits) + 1) =>
              /\ inits'[Len(inits')].pc = "loading"
              /\ Len(loads') = Len(loads) + 1
              /\ inits'[Len(inits')].load = Len(loads')
              /\ loads'[Len(loads')].state # "done"
              /\ serverConfig' =
                     InitializeConfigured(serverConfig, inits'[Len(inits')].host,
                                          inits'[Len(inits')].port)
       /\ \A i \in 2..Len(inits) :
              (inits[i].pc = "loading" /\ inits'[i].pc = "selftest") =>
                  /\ Len(calls') = Len(calls) + 1
                  /\ inits'[i].call = Len(calls')
                  /\ calls'[Len(calls')].path = SelfTestPath
       /\ \A i \in 2..Len(inits) :
              ~inits[i].overlapped =>
                  /\ (inits[i - 1].result = "false" /\ Completes(i, "true"))
                         => isInitialized'
                  /\ (inits[i - 1].result = "true" /\ Completes(i, "false"))
                         => ~isInitialized']_vars

\* initialize returned false and, called again afterwards, returned true:
\* the manager is initialized.
C24_Witness ==
    /\ Len(inits) = 2
    /\ ~inits[2].overlapped
    /\ inits[1].result = "false"
    /\ inits[2].result = "true"
    /\ inits[2].load # inits[1].load
    /\ isInitialized

\* initialize returned true and, called again afterwards, returned false:
\* the manager is not initialized.
C24_WitnessReadyThenFailed ==
    /\ Len(inits) = 2
    /\ ~inits[2].overlapped
    /\ inits[1].result = "true"
    /\ inits[2].result = "false"
    /\ ~isInitialized

\* The load that initialize number i awaits has settled; the self-test it
\* awaits can settle: it was rejected at the call, or the promise of the
\* engine it waits for has settled.
LoadSettled(i) ==
    /\ i <= Len(inits)
    /\ inits[i].pc = "loading"
    /\ loads[inits[i].load].state = "done"
SelfTestSettled(i) ==
    /\ i <= Len(inits)
    /\ inits[i].pc = "selftest"
    /\ \/ calls[inits[i].call].state # "pending"
       \/ engCalls[calls[inits[i].call].eng].state # "pending"

PastLoad(i) == i <= Len(inits) /\ inits[i].pc \in {"selftest", "done"}
HasReturned(i) == i <= Len(inits) /\ inits[i].pc = "done"

\* C25: initialize always settles by resolving to a boolean and never
\* rejects: a call that has returned resolved to true or to false, and a
\* call goes on to its self-test once its load has settled and returns
\* once its self-test has, whatever the load and the self-test came to.
C25_InitializeResolvesToBoolean ==
    \A i \in 1..MaxOps :
        /\ [](i <= Len(inits) =>
                 /\ inits[i].result \in {"none", "true", "false"}
                 /\ inits[i].pc = "done" <=> inits[i].result \in {"true", "false"})
        /\ LoadSettled(i) ~> PastLoad(i)
        /\ SelfTestSettled(i) ~> HasReturned(i)

\* initialize has returned false after a self-test that was sent awaiting
\* its response and that the transport failed.
C25_Witness ==
    \E i \in 1..Len(inits) :
        /\ inits[i].pc = "done"
        /\ inits[i].result = "false"
        /\ calls[inits[i].call].eng # 0
        /\ engCalls[calls[inits[i].call].eng].state = "rejected"

\* The three mode flags of a configuration.
ModeFlags(cfg) ==
    <<cfg.verboseMode, cfg.lowLatencyMode, cfg.skipResponseProcessing>>

\* C26: each configuration setter changes only the options it is given.
\* configureServer(host, port) sets the host and the port that are given,
\* leaves the one left out at its current value (127.0.0.1 and 5000 at the
\* start) and does not touch the mode flags; toggleVerbose(enable) changes
\* only verbose; setPerformanceMode(enable) without skipResponse changes
\* only lowLatency and leaves skipResponse as it is.  None of them touches
\* a request or a promise.
C26_SettersChangeOnlyWhatGiven ==
    /\ serverConfig.host = "127.0.0.1" /\ serverConfig.port = 5000
    /\ [][/\ \A a \in ServerArgs :
                 ConfigureServer(a[1], a[2]) =>
                     /\ serverConfig'.host =
                            IF a[1] = "" THEN serverConfig.host ELSE a[1]
                     /\ serverConfig'.port =
                            IF a[2] = 0 THEN serverConfig.port ELSE a[2]
                     /\ ModeFlags(serverConfig') = ModeFlags(serverConfig)
          /\ \A enable \in BOOLEAN :
                 ToggleVerbose(enable) =>
                     /\ serverConfig'.verboseMode = enable
                     /\ serverConfig'.host = serverConfig.host
                     /\ serverConfig'.port = serverConfig.port
                     /\ serverConfig'.lowLatencyMode = serverConfig.lowLatencyMode
                     /\ serverConfig'.skipResponseProcessing =
                            serverConfig.skipResponseProcessing
          /\ \A enable \in BOOLEAN :
                 SetPerformanceMode(enable, "undefined") =>
                     /\ serverConfig'.lowLatencyMode = enable
                     /\ serverConfig'.host = serverConfig.host
                     /\ serverConfig'.port = serverConfig.port
                     /\ serverConfig'.verboseMode = serverConfig.verboseMode
                     /\ serverConfig'.skipResponseProcessing =
                            serverConfig.skipResponseProcessing
          /\ serverConfig' # serverConfig =>
                 UNCHANGED <<fetchOptions, requests, engCalls, batchCalls>>]_vars

\* configureServer("h") was called on an engine with verbose and
\* skipResponse on and lowLatency off: the host is h, the port still 5000
\* and the flags are as they were.
C26_Witness ==
    /\ ops = 1
    /\ serverConfig.host = "h"
    /\ serverConfig.port = 5000
    /\ ModeFlags(serverConfig) = <<TRUE, FALSE, TRUE>>

\* The document has the whole path as one top-level key, whatever it holds.
HasLiteralKey(doc, path) == doc.t = "obj" /\ path \in DOMAIN doc.kids

\* C27: when the full path is a literal top-level key of the document with
\* a numeric value, getTriggerValue returns that value, also when the
\* segments of the path lead to another value or to nothing; when the
\* literal key is there but does not hold a number, getTriggerValue goes on
\* to the walk over the segments and returns what the walk comes to: the
\* number the segments lead to, and null otherwise.
C27_LiteralKeyFirstThenWalk ==
    Returned =>
        LET doc == lookup.mappings
            path == lookup.eventPath
            leaf == ValueAt(doc, path)
        IN  /\ (HasLiteralKey(doc, path) /\ doc.kids[path].t = "num") =>
                   lookup.result = Found(doc.kids[path].v)
            /\ (HasLiteralKey(doc, path) /\ doc.kids[path].t # "num"
                    /\ leaf.t = "num") =>
                   lookup.result = Found(leaf.v)
            /\ (HasLiteralKey(doc, path) /\ doc.kids[path].t # "num"
                    /\ leaf.t # "num") =>
                   lookup.result.isNull

\* a.b was looked up in {"a.b": 1, "a": {"b": 2}}: the segments lead to 2
\* and 1, the value of the literal key, came back.
C27_Witness ==
    /\ Returned
    /\ lookup.eventPath = <<"a", "b">>
    /\ lookup.mappings = DocBothShapes
    /\ ValueAt(lookup.mappings, lookup.eventPath) = Num(2)
    /\ lookup.result = Found(1)

\* a.b was looked up in {"a.b": "x", "a": {"b": 2}}: the literal key holds
\* a string and 2, from the walk, came back.
C27_WitnessWalkAfterLiteral ==
    /\ Returned
    /\ lookup.eventPath = <<"a", "b">>
    /\ lookup.mappings = DocLiteralNotNumeric
    /\ lookup.result = Found(2)

\* a.b.c was looked up in {"a.b.c": 5}: the segments lead nowhere and 5 came
\* back.
C27_WitnessWalkWouldFail ==
    /\ Returned
    /\ lookup.eventPath = <<"a", "b", "c">>
    /\ lookup.mappings = FlatDoc(<<"a", "b", "c">>, Num(5))
    /\ ValueAt(lookup.mappings, lookup.eventPath) = Undefined
    /\ lookup.result = Found(5)

\* The step is a call of one of the manager's two sends by a caller; the
\* promise it returns was rejected as not initialized, or went to the
\* engine with an entry in the ledger.
SendCalledByCaller ==
    CalledByCaller("sendTrigger") \/ CalledByCaller("sendTriggerByEvent")
RejectedNotInitialized ==
    /\ calls'[Len(calls')].state = "rejected"
    /\ calls'[Len(calls')].error = "NotInitialized"
    /\ NoDispatchNoEntry
AcceptedAndDispatched ==
    /\ calls'[Len(calls')].eng = Len(engCalls')
    /\ Len(engCalls') = Len(engCalls) + 1
    /\ Len(requests') = Len(requests) + 1
    /\ Len(triggerHistory') = Len(triggerHistory) + 1

C28_WitnessRejectedWhileLoading ==
    \E k \in 1..Len(calls) :
        /\ calls[k].op = "sendTrigger"
        /\ calls[k].running = 1
        /\ Len(inits) = 1
        /\ inits[1].call = 0 \/ k < inits[1].call
        /\ calls[k].error = "NotInitialized"

\* The step resolves eventPath for a send by event: a caller's call of
\* sendTriggerByEvent, or the self-test of an initialize whose load is done.
ResolvesForSend(eventPath) ==
    \/ EventCalledByCaller(eventPath)
    \/ /\ eventPath = SelfTestPath
       /\ \E i \in 1..Len(inits) :
              inits[i].pc = "loading" /\ inits'[i].pc = "selftest"

\* C29: a reload replaces the mapping document wholesale.  When a load
\* completes, of loadMappings or of initialize, the mappings are the
\* document it delivered, or the built-in fallback when it failed, whatever
\* they were before; and every send by event resolves in the mappings as
\* they are at the call: a path that is not in them is rejected without a
\* dispatch although an earlier document had it, and a value that is
\* dispatched is the one they hold.
C29_ReloadReplacesWholeDocument ==
    [][/\ \A l \in 1..Len(loads), loaded \in BOOLEAN, doc \in Documents :
              LoadSettle(l, loaded, doc) =>
                  triggerMappings' = IF loaded THEN doc ELSE FallbackMappings
       /\ \A eventPath \in Paths :
              ResolvesForSend(eventPath) =>
                  LET leaf == IF HasLiteral(triggerMappings, eventPath)
                              THEN triggerMappings.kids[eventPath]
                              ELSE ValueAt(triggerMappings, eventPath)
                  IN  IF leaf.t = "num"
                      THEN Len(engCalls') > Len(engCalls) =>
                               /\ engCalls'[Len(engCalls')].value = leaf.v
                               /\ triggerHistory'[Len(triggerHistory')].value
                                      = leaf.v
                      ELSE /\ calls'[Len(calls')].state = "rejected"
                           /\ calls'[Len(calls')].error = "NoTriggerValue"
                           /\ NoDispatchNoEntry]_vars

\* initialize was called twice: the first found system.test in its
\* document and dispatched 99; the document of the second, now the
\* mappings, has no system.test, and the self-test of the second was
\* rejected for want of a trigger value.
C29_Witness ==
    /\ Len(inits) = 2
    /\ inits[1].call # 0 /\ inits[2].call # 0
    /\ inits[1].call < inits[2].call
    /\ calls[inits[1].call].eng # 0
    /\ calls[inits[1].call].value = 99
    /\ triggerMappings = DocNoTest
    /\ calls[inits[2].call].error = "NoTriggerValue"
    /\ calls[inits[2].call].eng = 0

\* Two calls of initialize, the second made before the first had returned,
\* have both returned.
BothOverlappingSettled ==
    /\ Len(inits) = 2
    /\ inits[1].overlapped
    /\ Running = {}

C30_LastSettledFalseNotReady ==
    (BothOverlappingSettled /\ inits[lastSettled].result = "false")
        => ~isInitialized

\* The transport request of the self-test of initialize number i, and what
\* a caller can see of the manager: the results of the calls of initialize,
\* the flag and the ledger.
SelfTestRequest(i) == engCalls[calls[inits[i].call].eng].req
SelfTestSent(i) == inits[i].call # 0 /\ calls[inits[i].call].eng # 0
Observed == <<[i \in 1..Len(inits) |-> inits[i].result], isInitialized,
              triggerHistory>>

\* C31: in a session set up by initialize, which sends in low-latency mode
\* with responses skipped, the result of initialize does not depend on the
\* transport.  What initialize returns is fixed by the mapping source
\* alone, true exactly when the source gives system.test a code, whether
\* the request of the self-test is still in flight, succeeded or failed;
\* once the calls have returned so are the flag and the ledger; and no
\* step in which the transport settles a request changes a result, the
\* flag, the ledger or a promise of the manager.  So two runs that differ
\* only in what the transport does with the self-test show the same.
C31_InitializeIndependentOfTransport ==
    /\ [](\A i \in 1..Len(inits) :
              /\ inits[i].pc = "done" =>
                     inits[i].result =
                         IF OnceInitialized(source) THEN "true" ELSE "false"
              /\ SelfTestSent(i) =>
                     engCalls[calls[inits[i].call].eng].state = "resolved")
    /\ []((Len(inits) >= 1 /\ Running = {}) =>
              /\ isInitialized = OnceInitialized(source)
              /\ Len(triggerHistory) =
                     IF OnceInitialized(source) THEN Len(inits) ELSE 0
              /\ \A h \in 1..Len(triggerHistory) :
                     SelfTestEntry(triggerHistory[h]))
    /\ [][(\E r \in 1..Len(requests) :
               requests[r].status = "inflight"
                   /\ requests'[r].status # "inflight")
              => /\ Observed' = Observed
                 /\ calls' = calls]_vars

\* initialize has returned true and the manager is initialized although
\* the transport failed the request of the self-test.
C31_Witness ==
    /\ Len(inits) = 1
    /\ inits[1].result = "true"
    /\ isInitialized
    /\ Len(triggerHistory) = 1
    /\ SelfTestSent(1)
    /\ requests[SelfTestRequest(1)].status = "networkError"

\* The same with a request that is still in flight, and with one that
\* succeeded.
C31_WitnessNeverSettled ==
    /\ Len(inits) = 1
    /\ inits[1].result = "true"
    /\ isInitialized
    /\ Len(triggerHistory) = 1
    /\ SelfTestSent(1)
    /\ requests[SelfTestRequest(1)].status = "inflight"
C31_WitnessSucceeded ==
    /\ Len(inits) = 1
    /\ inits[1].result = "true"
    /\ isInitialized
    /\ Len(triggerHistory) = 1
    /\ SelfTestSent(1)
    /\ requests[SelfTestRequest(1)].status = "ok"

\* The transport request issued by the manager's promise k, the requests
\* issued through the manager, and the place of a request among them in
\* the order of issue.
RequestOf(k) == engCalls[calls[k].eng].req
ManagerRequests == {RequestOf(k) : k \in Dispatched}
PlaceAmongManagerRequests(r) ==
    Cardinality({q \in ManagerRequests : q <= r})

\* C32: in every reachable state the ledger has as many entries as
\* transport requests were issued through the manager's sendTrigger and
\* sendTriggerByEvent (the self-test of initialize is one of them; a send
\* made on the engine directly is not), and the value of the i-th entry is
\* the code in the body of the i-th of those requests.
C32_LedgerMatchesManagerRequests ==
    /\ Len(triggerHistory) = Cardinality(ManagerRequests)
    /\ Cardinality(ManagerRequests) = Cardinality(Dispatched)
    /\ \A k \in Dispatched :
           /\ RequestOf(k) \in 1..Len(requests)
           /\ PlaceAmongManagerRequests(RequestOf(k)) \in 1..Len(triggerHistory)
           /\ requests[RequestOf(k)].body =
                  TriggerValueJson(
                      triggerHistory[PlaceAmongManagerRequests(RequestOf(k))].value)

\* initialize sent its self-test and a caller then sent 5 or 7: the ledger
\* has the two entries, 99 first, and the two requests carry 99 and the
\* caller's code.
C32_Witness ==
    /\ Len(triggerHistory) = 2
    /\ Len(requests) = 2
    /\ triggerHistory[1].value = 99
    /\ triggerHistory[2].value # 99
    /\ requests[1].body = TriggerValueJson(99)
    /\ requests[2].body = TriggerValueJson(triggerHistory[2].value)
    /\ ManagerRequests = {1, 2}

\* A send made on the engine directly came before the self-test: the
\* transport has seen two requests and the ledger has one entry, for the
\* second of them.
C32_WitnessDirectSendNotCounted ==
    /\ Len(requests) = 2
    /\ Len(triggerHistory) = 1
    /\ ManagerRequests = {2}
    /\ requests[2].body = TriggerValueJson(triggerHistory[1].value)
    /\ requests[1].body # requests[2].body

====
